---- MODULE Spec2Model ----
(***************************************************************************)
(* tiny-links: a URL shortener (express + pg).  The model covers the       *)
(* request handlers of src/index.js and the rows of the `links` table.     *)
(* Strings are sequences of one-character strings, so that trim, the code  *)
(* pattern and the scheme test are computed as the code computes them.     *)
(* A handler runs atomically between two awaits (one JavaScript event      *)
(* loop turn); every await of a store call is a separate step, and the     *)
(* store (PostgreSQL, READ COMMITTED) serialises the statements.           *)
(***************************************************************************)
EXTENDS Integers, Sequences, FiniteSets, TLC

(* ------------------------------ bounds -------------------------------- *)

\* number of HTTP requests received in one behaviour
MaxReqs == 2
\* last value of the store's clock
MaxTime == 1
\* number of injected failures (store errors, a throwing response call)
MaxFaults == 1
\* clients of the pg connection pool
PoolSize == 2

(* ------------------------------ strings ------------------------------- *)

\* SQL NULL in last_clicked_at; timestamps are naturals
NULL == -1

\* the absent value of a JSON field or of a request field (JS undefined)
Undef == <<"undefined">>

\* JSON values that are not strings: null, and a number other than 0
JsNull == <<"null">>
JsNumber == <<"number">>

\* the TypeError of calling .trim() on a value that is not a string
TypeError == <<"TypeError">>

IsString(v) == v \notin {Undef, JsNull, JsNumber, TypeError}

LowerChars == <<"a","b","c","d","e","f","g","h","i","j","k","l","m",
                "n","o","p","q","r","s","t","u","v","w","x","y","z">>
UpperChars == <<"A","B","C","D","E","F","G","H","I","J","K","L","M",
                "N","O","P","Q","R","S","T","U","V","W","X","Y","Z">>
Digits == {"0","1","2","3","4","5","6","7","8","9"}

Range(s) == {s[i] : i \in DOMAIN s}

\* line 21-22: the 62 characters of the generator's alphabet
alphabet == Range(UpperChars) \cup Range(LowerChars) \cup Digits

\* characters String.prototype.trim removes
WhiteSpace == {" ", "\t", "\n", "\r"}

ToLower(c) ==
  IF c \in Range(UpperChars)
    THEN LowerChars[CHOOSE i \in DOMAIN UpperChars : UpperChars[i] = c]
    ELSE c

LowerStr(s) == [i \in DOMAIN s |-> ToLower(s[i])]

RECURSIVE TrimLeft(_)
TrimLeft(s) ==
  IF s # <<>> /\ Head(s) \in WhiteSpace THEN TrimLeft(Tail(s)) ELSE s

RECURSIVE TrimRight(_)
TrimRight(s) ==
  IF s # <<>> /\ s[Len(s)] \in WhiteSpace
    THEN TrimRight(SubSeq(s, 1, Len(s) - 1))
    ELSE s

\* String.prototype.trim
Trim(s) == TrimRight(TrimLeft(s))

StartsWith(s, p) == Len(s) >= Len(p) /\ SubSeq(s, 1, Len(p)) = p

\* the pattern without its i flag
HasSchemeExact(s) ==
  \/ StartsWith(s, <<"h","t","t","p",":","/","/">>)
  \/ StartsWith(s, <<"h","t","t","p","s",":","/","/">>)

\* /^https?:\/\//i.test(urlStr)
HasScheme(s) ==
  \/ StartsWith(LowerStr(s), <<"h","t","t","p",":","/","/">>)
  \/ StartsWith(LowerStr(s), <<"h","t","t","p","s",":","/","/">>)

HttpsPrefix == <<"h","t","t","p","s",":","/","/">>

\* first index of a character of set cs in s, Len(s)+1 when there is none
RECURSIVE FirstIn(_, _, _)
FirstIn(s, cs, i) ==
  IF i > Len(s) THEN Len(s) + 1
  ELSE IF s[i] \in cs THEN i
  ELSE FirstIn(s, cs, i + 1)

RECURSIVE SkipSlashes(_)
SkipSlashes(s) ==
  IF s # <<>> /\ Head(s) \in {"/", "\\"} THEN SkipSlashes(Tail(s)) ELSE s

\* characters the URL parser rejects in the host of an http(s) URL
ForbiddenHost == {" ", "%", "<", ">", "[", "]", "^", "|", "!"}

\* new URL(urlStr) for a string that starts with http:// or https://:
\* the parser needs a non-empty host without forbidden characters
UrlParses(s) ==
  LET afterScheme == SubSeq(s, FirstIn(s, {":"}, 1) + 1, Len(s))
      rest == SkipSlashes(afterScheme)
      host == SubSeq(rest, 1, FirstIn(rest, {"/", "?", "#"}, 1) - 1)
  IN  /\ host # <<>>
      /\ Range(host) \cap ForbiddenHost = {}

\* a JS value is falsy: undefined, null or the empty string
Falsy(v) == v = Undef \/ v = JsNull \/ v = <<>>

\* normalizeUrl(raw): Undef stands for the null result, TypeError for the
\* exception raw.trim() throws when raw is not a string
normalizeUrl(raw) ==
  IF Falsy(raw) THEN Undef
  ELSE IF ~IsString(raw) THEN TypeError
  ELSE LET t == Trim(raw)
           urlStr == IF HasScheme(t) THEN t ELSE HttpsPrefix \o t
       IN  IF UrlParses(urlStr) THEN urlStr ELSE Undef

\* a pattern whose $ also matches before a final line break
isValidCodeBeforeNewline(code) ==
  LET body == IF code # <<>> /\ code[Len(code)] = "\n"
                THEN SubSeq(code, 1, Len(code) - 1) ELSE code
  IN  Len(body) \in 6..8 /\ Range(body) \subseteq alphabet

\* isValidCode(code): /^[A-Za-z0-9]{6,8}$/
isValidCode(code) ==
  /\ Len(code) \in 6..8
  /\ Range(code) \subseteq alphabet

(* ------------------------------ inputs -------------------------------- *)

CodeA == <<"a","b","c","1","2","3">>
CodeDup == <<"d","u","p","0","0","0","1">>
CodeGen == <<"Z","z","9","Y","y","8","8">>
CodeBad == <<"b","a","d","!">>
Favicon == <<"f","a","v","i","c","o","n",".","i","c","o">>

UrlA == <<"a",".","c","o","m">>
UrlHttpsA == HttpsPrefix \o UrlA
UrlB == <<"b",".","c","o","m">>

\* JSON bodies of POST /api/links: { url | targetUrl | originalUrl, code? }
Body(u, t, o, c) == [url |-> u, targetUrl |-> t, originalUrl |-> o, code |-> c]

Bodies ==
  { Body(UrlA, Undef, Undef, Undef),
    Body(UrlHttpsA, Undef, Undef, CodeA),
    Body(Undef, UrlB, Undef, CodeA),
    Body(<<>>, Undef, Undef, CodeA),
    Body(UrlA, Undef, Undef, CodeBad) }

\* values customAlphabet(alphabet, 7) may return
GenCodes == {CodeDup, CodeGen}

\* :code parameters of GET /:code, GET and DELETE /api/links/:code
PathCodes == {CodeA, CodeDup}

\* ?search= values of GET /api/links
SearchTerms == {Undef, <<"A","B","C">>}

(* ------------------------------- state -------------------------------- *)

VARIABLES
  links,    \* rows of table links, as committed
  nextId,   \* next value of the id column
  now,      \* the store's clock, as last read (by BEGIN or INSERT)
  req,      \* the requests: handler position, inputs, transaction, response
  nreq,     \* number of requests received
  faults,   \* number of failures injected so far
  links0,   \* the rows at start-up
  call,     \* a call of a helper function on its own: argument and result
  poolMax   \* the number of clients the pool hands out at a time

vars == <<links, nextId, now, req, nreq, faults, links0, call, poolMax>>

Reqs == 1..MaxReqs

\* a row of table links
Link(id, code, url, count, last, created) ==
  [id |-> id, code |-> code, originalUrl |-> url, clickCount |-> count,
   lastClickedAt |-> last, createdAt |-> created]

\* column defaults of the table: click_count 0, last_clicked_at NULL,
\* created_at the time of the insert
NewLink(id, code, url, t) == Link(id, code, url, 0, NULL, t)

NoBody == Body(Undef, Undef, Undef, Undef)

Idle ==
  [kind |-> "none", pc |-> "idle", body |-> NoBody, code |-> Undef, url |-> Undef,
   custom |-> FALSE, status |-> 0, responses |-> 0,
   rows |-> <<>>, location |-> Undef,
   client |-> "none", releases |-> 0, tx |-> "none", txStart |-> NULL,
   linkId |-> 0, dirty |-> FALSE, newCount |-> 0,
   committed |-> FALSE, faulted |-> FALSE]

\* no helper function is called on its own
NoCall == [fn |-> "none", arg |-> Undef, result |-> Undef]

Init ==
  /\ links \in { {}, {NewLink(1, CodeA, UrlHttpsA, 0)} }
  /\ nextId = Cardinality(links) + 1
  /\ now = 0
  /\ req = [r \in Reqs |-> Idle]
  /\ nreq = 0
  /\ faults = 0
  /\ links0 = links
  /\ call = NoCall
  /\ poolMax = PoolSize

(* ------------------------------ the store ----------------------------- *)

RowsOf(code) == {l \in links : l.code = code}
RowById(id) == {l \in links : l.id = id}

\* a row lock that outlives its transaction
HoldsLockForever(r, id) == req[r].linkId = id /\ id # 0

\* request r has a transaction that holds the row lock of row id
\* (a failed transaction keeps its locks until it is rolled back)
HoldsLock(r, id) ==
  /\ req[r].tx \in {"open", "aborted"}
  /\ req[r].linkId = id
  /\ id # 0

\* a store without row locks: no statement ever waits for another transaction
LockedByNobody(id, r) == FALSE

\* row id is locked by a transaction other than r's
LockedByOther(id, r) == \E o \in Reqs \ {r} : HoldsLock(o, id)

\* a table without the unique constraint on code
NoUniqueViolation(code) == FALSE

\* the unique constraint on links.code (error 23505)
UniqueViolation(code) == RowsOf(code) # {}

\* clients of the pool checked out by a redirect request and not yet released
InUse == {r \in Reqs : req[r].client \in {"held", "broken"}}
PoolFree == poolMax - Cardinality(InUse)

CanFault == faults < MaxFaults

\* the values the store's clock may show when it is read next
ClockReadings == {t \in {now, now + 1} : t <= MaxTime}

\* click_count = click_count + 2
IncrementTwice(count) == count + 2

\* click_count = click_count + 1
Increment(count) == count + 1

\* an UPDATE that does not set last_clicked_at
ClickedCountOnly(row, r) == [row EXCEPT !.clickCount = req[r].newCount]

\* the row as the UPDATE of request r leaves it
Clicked(row, r) ==
  [row EXCEPT !.clickCount = req[r].newCount, !.lastClickedAt = req[r].txStart]

\* the table after the transaction of request r commits
Committed(r) ==
  IF req[r].dirty /\ RowById(req[r].linkId) # {}
    THEN {IF l.id = req[r].linkId THEN Clicked(l, r) ELSE l : l \in links}
    ELSE links

(* ------------------------- receiving a request ------------------------ *)

\* request r is the next one received
Fresh(r) == r = nreq + 1 /\ r \in Reqs

Received(r, rec) ==
  /\ req' = [req EXCEPT ![r] = rec]
  /\ nreq' = r

\* the response of request r is sent and its handler is over
Respond(rec, status) ==
  [rec EXCEPT !.pc = "done", !.status = status, !.dirty = FALSE, !.newCount = 0,
              !.responses = rec.responses + 1,
              !.location = IF status = 302 THEN rec.location ELSE Undef]

\* a handler that never calls client.release()
NoRelease(rec) == rec

\* client.release(): the client goes back to the pool, a broken one is dropped
Release(rec) ==
  [rec EXCEPT !.client = IF rec.client = "broken" THEN "destroyed" ELSE "released",
              !.releases = rec.releases + 1]

\* req.body.url || req.body.targetUrl || req.body.originalUrl
LongUrl(body) ==
  IF ~Falsy(body.url) THEN body.url
  ELSE IF ~Falsy(body.targetUrl) THEN body.targetUrl
  ELSE body.originalUrl

\* POST /api/links with a body of set bodies, up to the await of the INSERT
\* (lines 88-114); a TypeError of .trim() goes to the outer catch (134-137)
StartCreateOf(r, bodies) ==
  /\ Fresh(r)
  /\ \E body \in bodies, generated \in GenCodes :
       LET customCode == body.code
           normalized == normalizeUrl(LongUrl(body))
           code == IF ~Falsy(customCode) THEN Trim(customCode) ELSE generated
           rec == [Idle EXCEPT !.kind = "create", !.body = body,
                               !.custom = ~Falsy(customCode)]
       IN  IF normalized = TypeError THEN Received(r, Respond(rec, 500))
           ELSE IF normalized = Undef THEN Received(r, Respond(rec, 400))
           ELSE IF ~Falsy(customCode) /\ ~IsString(customCode)
             THEN Received(r, Respond(rec, 500))
           ELSE IF ~isValidCode(code) THEN Received(r, Respond(rec, 400))
           ELSE Received(r, [rec EXCEPT !.pc = "insert", !.code = code,
                                        !.url = normalized])
  /\ UNCHANGED <<links, nextId, now, faults, links0>>
  /\ UNCHANGED <<call, poolMax>>

\* POST /api/links
StartCreate(r) == StartCreateOf(r, Bodies)

\* the INSERT resolves: 201 with the new row, or 409 on the unique violation,
\* or 500 on any other store error (lines 114-133)
Insert(r) ==
  /\ req[r].kind = "create" /\ req[r].pc = "insert"
  /\ PoolFree > 0
  /\ \/ /\ ~UniqueViolation(req[r].code)
        /\ \E t \in ClockReadings :
             LET link == NewLink(nextId, req[r].code, req[r].url, t)
             IN  /\ now' = t
                 /\ links' = links \cup {link}
                 /\ nextId' = nextId + 1
                 /\ req' = [req EXCEPT ![r] =
                              [Respond(req[r], 201) EXCEPT !.rows = <<link>>]]
        /\ UNCHANGED <<nreq, faults, links0>>
     \/ /\ UniqueViolation(req[r].code)
        /\ req' = [req EXCEPT ![r] = Respond(req[r], 409)]
        /\ UNCHANGED <<links, nextId, now, nreq, faults, links0>>
     \/ /\ CanFault
        /\ faults' = faults + 1
        /\ req' = [req EXCEPT ![r] = [Respond(req[r], 500) EXCEPT !.faulted = TRUE]]
        /\ UNCHANGED <<links, nextId, now, nreq, links0>>
  /\ UNCHANGED <<call, poolMax>>

\* DELETE /api/links/:code up to the await (lines 221-226)
StartDelete(r) ==
  /\ Fresh(r)
  /\ \E code \in PathCodes :
       Received(r, [Idle EXCEPT !.kind = "delete", !.pc = "delete", !.code = code])
  /\ UNCHANGED <<links, nextId, now, faults, links0>>
  /\ UNCHANGED <<call, poolMax>>

\* DELETE FROM links without its WHERE clause
DeletedAll(code) == {}

\* the table after DELETE FROM links WHERE code = $1
Deleted(code) == links \ RowsOf(code)

\* the DELETE resolves; it waits for the row lock of a redirect transaction
Delete(r) ==
  /\ req[r].kind = "delete" /\ req[r].pc = "delete"
  /\ PoolFree > 0
  /\ \/ /\ RowsOf(req[r].code) # {}
        /\ \A l \in RowsOf(req[r].code) : ~LockedByOther(l.id, r)
        /\ links' = Deleted(req[r].code)
        /\ req' = [req EXCEPT ![r] = Respond(req[r], 200)]
        /\ UNCHANGED <<nextId, now, nreq, faults, links0>>
     \/ /\ RowsOf(req[r].code) = {}
        /\ req' = [req EXCEPT ![r] = Respond(req[r], 404)]
        /\ UNCHANGED <<links, nextId, now, nreq, faults, links0>>
     \/ /\ CanFault
        /\ faults' = faults + 1
        /\ req' = [req EXCEPT ![r] = [Respond(req[r], 500) EXCEPT !.faulted = TRUE]]
        /\ UNCHANGED <<links, nextId, now, nreq, links0>>
  /\ UNCHANGED <<call, poolMax>>

\* GET /api/links/:code up to the await (lines 185-195)
StartGet(r) ==
  /\ Fresh(r)
  /\ \E code \in PathCodes :
       Received(r, [Idle EXCEPT !.kind = "get", !.pc = "get", !.code = code])
  /\ UNCHANGED <<links, nextId, now, faults, links0>>
  /\ UNCHANGED <<call, poolMax>>

\* the SELECT of GET /api/links/:code resolves (lines 197-214)
Get(r) ==
  /\ req[r].kind = "get" /\ req[r].pc = "get"
  /\ PoolFree > 0
  /\ \/ /\ RowsOf(req[r].code) = {}
        /\ req' = [req EXCEPT ![r] = Respond(req[r], 404)]
        /\ UNCHANGED faults
     \/ /\ \E l \in RowsOf(req[r].code) :
             req' = [req EXCEPT ![r] = [Respond(req[r], 200) EXCEPT !.rows = <<l>>]]
        /\ UNCHANGED faults
     \/ /\ CanFault
        /\ faults' = faults + 1
        /\ req' = [req EXCEPT ![r] = [Respond(req[r], 500) EXCEPT !.faulted = TRUE]]
  /\ UNCHANGED <<links, nextId, now, nreq, links0>>
  /\ UNCHANGED <<call, poolMax>>

\* s LIKE p: % is any run of characters, _ any one character, \ escapes
RECURSIVE Like(_, _)
Like(s, p) ==
  IF p = <<>> THEN s = <<>>
  ELSE IF Head(p) = "%"
    THEN Like(s, Tail(p)) \/ (s # <<>> /\ Like(Tail(s), p))
  ELSE IF Head(p) = "\\"
    THEN /\ Len(p) >= 2 /\ s # <<>> /\ Head(s) = p[2]
         /\ Like(Tail(s), Tail(Tail(p)))
  ELSE /\ s # <<>>
       /\ (Head(p) = "_" \/ Head(p) = Head(s))
       /\ Like(Tail(s), Tail(p))

\* s ILIKE p
ILike(s, p) == Like(LowerStr(s), LowerStr(p))

\* the rows the query of GET /api/links selects (lines 146-158)
Matching(search) ==
  IF search = <<>> THEN links
  ELSE LET pattern == <<"%">> \o search \o <<"%">>
       IN  {l \in links : ILike(l.code, pattern) \/ ILike(l.originalUrl, pattern)}

\* ORDER BY created_at DESC: every order of S by createdAt descending
RECURSIVE NewestFirst(_)
NewestFirst(S) ==
  IF S = {} THEN {<<>>}
  ELSE UNION { {<<x>> \o rest : rest \in NewestFirst(S \ {x})} :
               x \in {y \in S : \A z \in S : y.createdAt >= z.createdAt} }

\* GET /api/links with a search term of set terms, up to the await
\* (lines 144-162)
StartListOf(r, terms) ==
  /\ Fresh(r)
  /\ \E q \in terms :
       LET search == Trim(IF Falsy(q) THEN <<>> ELSE q)
       IN  Received(r, [Idle EXCEPT !.kind = "list", !.pc = "list", !.code = search])
  /\ UNCHANGED <<links, nextId, now, faults, links0>>
  /\ UNCHANGED <<call, poolMax>>

\* the SELECT of GET /api/links resolves (lines 162-178)
List(r) ==
  /\ req[r].kind = "list" /\ req[r].pc = "list"
  /\ PoolFree > 0
  /\ \/ /\ \E rows \in NewestFirst(Matching(req[r].code)) :
             req' = [req EXCEPT ![r] = [Respond(req[r], 200) EXCEPT !.rows = rows]]
        /\ UNCHANGED faults
     \/ /\ CanFault
        /\ faults' = faults + 1
        /\ req' = [req EXCEPT ![r] = [Respond(req[r], 500) EXCEPT !.faulted = TRUE]]
  /\ UNCHANGED <<links, nextId, now, nreq, links0>>
  /\ UNCHANGED <<call, poolMax>>

\* GET /api/links
StartList(r) == StartListOf(r, SearchTerms)

(* ----------------------------- GET /:code ----------------------------- *)

\* a statement of request r's transaction fails with an error of the server:
\* the transaction is aborted and keeps its locks until it is rolled back
StatementError(rec) ==
  [rec EXCEPT !.pc = "catch", !.tx = "aborted", !.faulted = TRUE]

\* the connection of request r is lost: the server drops the transaction
\* and the client rejects every later query
ConnectionError(rec) ==
  [rec EXCEPT !.pc = "catch", !.tx = "lost", !.client = "broken", !.faulted = TRUE]

\* a handler without the favicon.ico test
NothingReserved(code) == FALSE

\* code === "favicon.ico" (line 249)
IsReserved(code) == code = Favicon

\* GET /:code up to the await of pool.connect() (lines 245-254)
StartRedirect(r) ==
  /\ Fresh(r)
  /\ \E code \in PathCodes \cup {Favicon} :
       LET rec == [Idle EXCEPT !.kind = "redirect", !.code = code]
       IN  IF IsReserved(code) THEN Received(r, Respond(rec, 404))
           ELSE Received(r, [rec EXCEPT !.pc = "connect"])
  /\ UNCHANGED <<links, nextId, now, faults, links0>>
  /\ UNCHANGED <<call, poolMax>>

\* pool.connect() resolves with a client, or rejects (outer catch, line 295)
Connect(r) ==
  /\ req[r].kind = "redirect" /\ req[r].pc = "connect"
  /\ \/ /\ PoolFree > 0
        /\ req' = [req EXCEPT ![r] = [req[r] EXCEPT !.pc = "begin", !.client = "held"]]
        /\ UNCHANGED faults
     \/ /\ CanFault
        /\ faults' = faults + 1
        /\ req' = [req EXCEPT ![r] = [Respond(req[r], 500) EXCEPT !.faulted = TRUE]]
  /\ UNCHANGED <<links, nextId, now, nreq, links0>>
  /\ UNCHANGED <<call, poolMax>>

\* BEGIN resolves (line 256); NOW() of the transaction is the time of BEGIN
Begin(r) ==
  /\ req[r].kind = "redirect" /\ req[r].pc = "begin"
  /\ \/ /\ \E t \in ClockReadings :
             /\ now' = t
             /\ req' = [req EXCEPT ![r] =
                          [req[r] EXCEPT !.pc = "select", !.tx = "open",
                                         !.txStart = t]]
        /\ UNCHANGED faults
     \/ /\ CanFault
        /\ faults' = faults + 1
        /\ req' = [req EXCEPT ![r] = ConnectionError(req[r])]
        /\ UNCHANGED now
  /\ UNCHANGED <<links, nextId, nreq, links0>>
  /\ UNCHANGED <<call, poolMax>>

\* SELECT ... FOR UPDATE resolves (lines 258-273): no row, or the row locked
Select(r) ==
  /\ req[r].kind = "redirect" /\ req[r].pc = "select"
  /\ \/ /\ RowsOf(req[r].code) = {}
        /\ req' = [req EXCEPT ![r] = [req[r] EXCEPT !.pc = "rollback404"]]
        /\ UNCHANGED faults
     \/ /\ \E link \in RowsOf(req[r].code) :
             /\ ~LockedByOther(link.id, r)
             /\ req' = [req EXCEPT ![r] =
                          [req[r] EXCEPT !.pc = "update", !.linkId = link.id,
                                         !.location = link.originalUrl]]
        /\ UNCHANGED faults
     \/ /\ CanFault
        /\ faults' = faults + 1
        /\ \/ req' = [req EXCEPT ![r] = StatementError(req[r])]
           \/ req' = [req EXCEPT ![r] = ConnectionError(req[r])]
  /\ UNCHANGED <<links, nextId, now, nreq, links0>>
  /\ UNCHANGED <<call, poolMax>>

\* UPDATE ... WHERE id = $1 resolves (lines 275-283); its row count is not read
Update(r) ==
  /\ req[r].kind = "redirect" /\ req[r].pc = "update"
  /\ \/ /\ ~LockedByOther(req[r].linkId, r)
        /\ \/ \E row \in RowById(req[r].linkId) :
                req' = [req EXCEPT ![r] =
                          [req[r] EXCEPT !.pc = "commit", !.dirty = TRUE,
                                         !.newCount = Increment(row.clickCount)]]
           \/ /\ RowById(req[r].linkId) = {}
              /\ req' = [req EXCEPT ![r] = [req[r] EXCEPT !.pc = "commit"]]
        /\ UNCHANGED faults
     \/ /\ CanFault
        /\ faults' = faults + 1
        /\ \/ req' = [req EXCEPT ![r] = StatementError(req[r])]
           \/ req' = [req EXCEPT ![r] = ConnectionError(req[r])]
  /\ UNCHANGED <<links, nextId, now, nreq, links0>>
  /\ UNCHANGED <<call, poolMax>>

\* COMMIT resolves (line 285), then res.redirect(302, ...) and the finally
\* block run (lines 287, 292-294)
Commit(r) ==
  /\ req[r].kind = "redirect" /\ req[r].pc = "commit"
  /\ LET applied == req[r].dirty /\ RowById(req[r].linkId) # {}
         done == [req[r] EXCEPT !.tx = "committed", !.committed = applied]
     IN
     \/ \* the commit succeeds and the redirect is sent
        /\ links' = Committed(r)
        /\ req' = [req EXCEPT ![r] = Release(Respond(done, 302))]
        /\ UNCHANGED faults
     \/ \* the commit succeeds and res.redirect throws
        /\ CanFault
        /\ faults' = faults + 1
        /\ links' = Committed(r)
        /\ req' = [req EXCEPT ![r] = [done EXCEPT !.pc = "catch", !.faulted = TRUE]]
     \/ \* the server rejects the commit: the transaction is rolled back
        /\ CanFault
        /\ faults' = faults + 1
        /\ links' = links
        /\ req' = [req EXCEPT ![r] =
                     [req[r] EXCEPT !.pc = "catch", !.tx = "rolledback",
                                    !.faulted = TRUE]]
     \/ \* the connection is lost before the server commits
        /\ CanFault
        /\ faults' = faults + 1
        /\ links' = links
        /\ req' = [req EXCEPT ![r] = ConnectionError(req[r])]
     \/ \* the connection is lost after the server committed
        /\ CanFault
        /\ faults' = faults + 1
        /\ links' = Committed(r)
        /\ req' = [req EXCEPT ![r] =
                     [done EXCEPT !.pc = "catch", !.client = "broken",
                                  !.faulted = TRUE]]
  /\ UNCHANGED <<nextId, now, nreq, links0>>
  /\ UNCHANGED <<call, poolMax>>

\* a ROLLBACK that is never sent: the transaction stays as it is
NotRolledBack(rec) == rec

\* the transaction of rec after a ROLLBACK the server executed
RolledBack(rec) ==
  [rec EXCEPT !.tx = IF rec.tx \in {"open", "aborted"} THEN "rolledback" ELSE rec.tx]

\* the ROLLBACK of the not-found path resolves (lines 268-271)
Rollback404(r) ==
  /\ req[r].kind = "redirect" /\ req[r].pc = "rollback404"
  /\ \/ /\ req' = [req EXCEPT ![r] = Release(Respond(RolledBack(req[r]), 404))]
        /\ UNCHANGED faults
     \/ /\ CanFault
        /\ faults' = faults + 1
        /\ req' = [req EXCEPT ![r] = ConnectionError(req[r])]
  /\ UNCHANGED <<links, nextId, now, nreq, links0>>
  /\ UNCHANGED <<call, poolMax>>

\* the ROLLBACK of the catch block resolves (lines 288-294); when it rejects,
\* the finally block releases the client and the outer catch answers (295-298)
Catch(r) ==
  /\ req[r].kind = "redirect" /\ req[r].pc = "catch"
  /\ \/ /\ req[r].client = "held"
        /\ req' = [req EXCEPT ![r] = Release(Respond(RolledBack(req[r]), 500))]
        /\ UNCHANGED faults
     \/ /\ req[r].client = "broken"
        /\ req' = [req EXCEPT ![r] = Release(Respond(req[r], 500))]
        /\ UNCHANGED faults
     \/ /\ req[r].client = "held"
        /\ CanFault
        /\ faults' = faults + 1
        /\ LET lost == [req[r] EXCEPT
                          !.client = "broken",
                          !.tx = IF req[r].tx \in {"open", "aborted"}
                                   THEN "lost" ELSE req[r].tx]
           IN  req' = [req EXCEPT ![r] = Release(Respond(lost, 500))]
  /\ UNCHANGED <<links, nextId, now, nreq, links0>>
  /\ UNCHANGED <<call, poolMax>>

Next ==
  \/ \E r \in Reqs : StartCreate(r)
  \/ \E r \in Reqs : Insert(r)
  \/ \E r \in Reqs : StartDelete(r)
  \/ \E r \in Reqs : Delete(r)
  \/ \E r \in Reqs : StartGet(r)
  \/ \E r \in Reqs : Get(r)
  \/ \E r \in Reqs : StartList(r)
  \/ \E r \in Reqs : List(r)
  \/ \E r \in Reqs : StartRedirect(r)
  \/ \E r \in Reqs : Connect(r)
  \/ \E r \in Reqs : Begin(r)
  \/ \E r \in Reqs : Select(r)
  \/ \E r \in Reqs : Update(r)
  \/ \E r \in Reqs : Commit(r)
  \/ \E r \in Reqs : Rollback404(r)
  \/ \E r \in Reqs : Catch(r)

Spec == Init /\ [][Next]_vars

\* an await of the handler of request r resolves
Step(r) ==
  \/ Insert(r) \/ Delete(r) \/ Get(r) \/ List(r)
  \/ Connect(r) \/ Begin(r) \/ Select(r) \/ Update(r)
  \/ Commit(r) \/ Rollback404(r) \/ Catch(r)

\* the event loop and the store are fair to every request: a store call that
\* can resolve without a failure does resolve (the pool and the lock manager
\* serve their waiters in turn); nothing makes a failure happen
Fairness == \A r \in Reqs : WF_vars(Step(r) /\ faults' = faults)

\* start-up with a pool of 1 to PoolSize clients
InitAnyPool ==
  /\ links \in { {}, {NewLink(1, CodeA, UrlHttpsA, 0)} }
  /\ nextId = Cardinality(links) + 1
  /\ now = 0
  /\ req = [r \in Reqs |-> Idle]
  /\ nreq = 0
  /\ faults = 0
  /\ links0 = links
  /\ call = NoCall
  /\ poolMax \in 1..PoolSize

FairSpec == InitAnyPool /\ [][Next]_vars /\ Fairness

\* ---------------------------------------------------------------------------
\* The helper functions and the validation of POST /api/links on wider inputs

\* longest string given to isValidCode
MaxLen == 9

JsTrue == <<"true">>
JsFalse == <<"false">>
Pending == <<"pending">>

\* the string of n characters "a" with character c at position pos
Filled(n, pos, c) == [i \in 1..n |-> IF i = pos THEN c ELSE "a"]

\* characters put into the strings given to isValidCode
ProbeChars == {"Z", "7", "!", " ", "\n", "_", "-"}

CodeInputs ==
  {Filled(n, pos, c) : n \in 0..MaxLen, pos \in 0..MaxLen, c \in ProbeChars}

\* the strings given to normalizeUrl: white space, a scheme, a host, white space
UrlInputs ==
  {lead \o scheme \o host \o trail :
     lead \in {<<>>, <<" ">>},
     scheme \in {<<>>, <<"h","t","t","p",":","/","/">>, <<"h","t","t","p","s",":","/","/">>, <<"H","T","T","P",":","/","/">>, <<"h","T","T","p","s",":","/","/">>, <<"f","t","p",":","/","/">>, <<"h","t","t","p",":","/">>},
     host \in {<<>>, <<"a",".","c","o","m">>, <<"a"," ","b">>, <<"a",".","i","o","/","p">>},
     trail \in {<<>>, <<"\n">>}}

Calls ==
  {[fn |-> "isValidCode", arg |-> c, result |-> Pending] : c \in CodeInputs}
  \cup {[fn |-> "normalizeUrl", arg |-> u, result |-> Pending] :
          u \in UrlInputs \cup {Undef}}

\* the bodies of the create requests: a url and a code of every kind
AnyBodies ==
  {Body(u, Undef, Undef, c) :
     u \in {Undef, JsNull, JsNumber, <<>>, UrlA, <<"a"," ","b">>, <<"H","T","T","P",":","/","/","a",".","c","o","m">>, <<" ","a",".","c","o","m","\n">>},
     c \in {Undef, JsNull, JsNumber, <<>>, CodeA, CodeBad, <<" ","a","b","c","1","2","3"," ">>, <<" "," ">>,
            <<"a","b","c","1","2">>, <<"a","b","c","1","2","3","4","5","6">>}}

InitInputs ==
  /\ links \in { {}, {NewLink(1, CodeA, UrlHttpsA, 0)} }
  /\ nextId = Cardinality(links) + 1
  /\ now = 0
  /\ req = [r \in Reqs |-> Idle]
  /\ nreq = 0
  /\ faults = 0
  /\ links0 = links
  /\ call \in Calls \cup {NoCall}
  /\ poolMax = PoolSize

\* isValidCode(code) called on its own (lines 74-76)
IsValidCodeCall ==
  /\ call.fn = "isValidCode" /\ call.result = Pending
  /\ call' = [call EXCEPT !.result = IF isValidCode(call.arg) THEN JsTrue ELSE JsFalse]
  /\ UNCHANGED <<links, nextId, now, req, nreq, faults, links0, poolMax>>

\* normalizeUrl(raw) called on its own (lines 58-72)
NormalizeUrlCall ==
  /\ call.fn = "normalizeUrl" /\ call.result = Pending
  /\ call' = [call EXCEPT !.result = normalizeUrl(call.arg)]
  /\ UNCHANGED <<links, nextId, now, req, nreq, faults, links0, poolMax>>

\* one POST /api/links with a body of AnyBodies
CreateAny(r) ==
  /\ call = NoCall /\ nreq = 0
  /\ StartCreateOf(r, AnyBodies)

NextInputs ==
  \/ IsValidCodeCall
  \/ NormalizeUrlCall
  \/ \E r \in Reqs : CreateAny(r)
  \/ \E r \in Reqs : Insert(r)

SpecInputs == InitInputs /\ [][NextInputs]_vars

\* ---------------------------------------------------------------------------
\* GET /api/links on wider tables and search terms

\* links with '_' and '%' in their URLs, two of them created at the same time
SampleLinks ==
  {NewLink(1, CodeA, UrlHttpsA, 0),
   NewLink(2, CodeGen, <<"h","t","t","p","s",":","/","/","b",".","c","o","m","/","a","_","c">>, 1),
   NewLink(3, CodeDup, <<"h","t","t","p","s",":","/","/","c",".","i","o","/","1","0","0","%">>, 1)}

\* the values of the query parameter search
AnyTerms ==
  {Undef, <<>>, <<"A","B","C">>, <<"a","_","c">>, <<"_">>, <<"%">>, <<"0","%">>, <<"z","z","9">>, <<" ","b",".","c","o","m"," ">>, <<"x","y","z">>}

InitList ==
  /\ links \in SUBSET SampleLinks
  /\ nextId = Cardinality(SampleLinks) + 1
  /\ now = 1
  /\ req = [r \in Reqs |-> Idle]
  /\ nreq = 0
  /\ faults = 0
  /\ links0 = links
  /\ call = NoCall
  /\ poolMax = PoolSize

\* one GET /api/links with a search term of AnyTerms
ListAny(r) ==
  /\ nreq = 0
  /\ StartListOf(r, AnyTerms)

NextList ==
  \/ \E r \in Reqs : ListAny(r)
  \/ \E r \in Reqs : List(r)

SpecList == InitList /\ [][NextList]_vars

(* ------------------------------ the claims ---------------------------- *)

Done(r) == req[r].pc = "done"

\* the requests of one kind for one code
RequestsFor(kind, code) ==
  {r \in Reqs : req[r].kind = kind /\ req[r].code = code}

\* some delete request removed the link of this code
WasDeleted(code) == \E r \in RequestsFor("delete", code) : req[r].status = 200

\* clickCount of a row before any request of this behaviour
CountBefore(l) ==
  IF \E l0 \in links0 : l0.id = l.id
    THEN (CHOOSE l0 \in links0 : l0.id = l.id).clickCount
    ELSE 0

\* C1: no lost updates.  When every redirect request for the code of a live
\* link has completed with 302 and no delete removed that code, the link's
\* clickCount is its value before those requests plus their number.
C1_NoLostUpdates ==
  \A l \in links :
    LET R == RequestsFor("redirect", l.code)
    IN  (/\ \A r \in R : Done(r) /\ req[r].status = 302
         /\ ~WasDeleted(l.code))
        => l.clickCount = CountBefore(l) + Cardinality(R)

\* two redirects of the same link overlapped (the one that began later
\* committed first), both answered 302, and both clicks are counted
C1_Witness ==
  \E l \in links : \E r1, r2 \in RequestsFor("redirect", l.code) :
    /\ Done(r1) /\ Done(r2)
    /\ req[r1].status = 302 /\ req[r2].status = 302
    /\ req[r1].txStart < req[r2].txStart
    /\ l.lastClickedAt = req[r1].txStart
    /\ l.clickCount = CountBefore(l) + 2

\* the codes the requests received so far carry
RequestCodes == {req[r].code : r \in Reqs} \ {Undef}

\* the create requests that supplied this code themselves
CustomCreates(code) == {r \in RequestsFor("create", code) : req[r].custom}

\* C2: two create requests supplying the same custom code, with no link of
\* that code beforehand and no other create or delete of it: once both have
\* completed without a store failure, one answered 201, the other 409, and
\* exactly one link has that code.
C2_OneCreateWins ==
  \A c \in RequestCodes :
    LET C == CustomCreates(c)
    IN  (/\ Cardinality(C) = 2
         /\ RequestsFor("create", c) = C
         /\ RequestsFor("delete", c) = {}
         /\ \A l \in links0 : l.code # c
         /\ \A r \in C : Done(r) /\ ~req[r].faulted)
        => /\ {req[r].status : r \in C} = {201, 409}
           /\ Cardinality({r \in C : req[r].status = 201}) = 1
           /\ Cardinality(RowsOf(c)) = 1

\* two creates of the same custom code completed; the one received second
\* inserted first and answered 201, the other answered 409
C2_Witness ==
  \E c \in RequestCodes : \E r1, r2 \in CustomCreates(c) :
    /\ r1 < r2
    /\ \A l \in links0 : l.code # c
    /\ Done(r1) /\ Done(r2)
    /\ req[r1].status = 409 /\ req[r2].status = 201
    /\ Cardinality(RowsOf(c)) = 1

Redirects == {r \in Reqs : req[r].kind = "redirect"}

\* C3: a redirect racing with a delete of the same code.  The row a redirect
\* transaction has locked stays in the table until the transaction ends; a 302
\* is answered only after the increment was applied to the existing row; a 404
\* applies no increment; without a store failure the answer is 302 or 404.
C3_RedirectVersusDelete ==
  \A r \in Redirects :
    /\ HoldsLock(r, req[r].linkId) => RowById(req[r].linkId) # {}
    /\ (Done(r) /\ req[r].status = 302) => req[r].committed
    /\ (Done(r) /\ req[r].status = 404) => (~req[r].committed /\ req[r].linkId = 0)
    /\ (Done(r) /\ ~req[r].faulted) => req[r].status \in {302, 404}

\* the delete was received first, the redirect locked the row first: the
\* redirect answered 302 with its click committed, then the delete removed
\* the row
C3_Witness ==
  \E r \in Redirects : \E d \in RequestsFor("delete", req[r].code) :
    /\ d < r
    /\ Done(r) /\ req[r].status = 302 /\ req[r].committed
    /\ Done(d) /\ req[d].status = 200
    /\ RowsOf(req[r].code) = {}

\* C4 (as claimed): a completed redirect request answered 302 if and only
\* if its click increment was committed.
C4_RedirectIffCommitted ==
  \A r \in Redirects :
    Done(r) => (req[r].status = 302 <=> req[r].committed)

\* C5 (as claimed): a create request without a custom code never fails as a
\* duplicate (409): a collision of the generated code is retried.
C5_GeneratedNever409 ==
  \A r \in Reqs :
    (req[r].kind = "create" /\ ~req[r].custom /\ Done(r)) => req[r].status # 409

\* C6 (as claimed): a click never overwrites lastClickedAt with an earlier
\* time.
C6_LastClickedMonotonic ==
  [][\A l \in links : \A m \in links' :
       (m.id = l.id /\ l.lastClickedAt # NULL)
         => m.lastClickedAt >= l.lastClickedAt]_vars

\* C7 (as claimed): lastClickedAt of a live link is never before its
\* createdAt.
C7_ClickedAfterCreated ==
  \A l \in links :
    l.lastClickedAt # NULL => l.lastClickedAt >= l.createdAt

\* request r commits its redirect transaction in this step
CommitsNow(r) ==
  /\ req[r].kind = "redirect"
  /\ req[r].pc = "commit"
  /\ req'[r].tx = "committed"

\* C8: the clickCount of a link record changes only in the commit of a
\* redirect request for that link's code, and then by exactly 1.
C8_ClickCountOnlyByRedirect ==
  [][\A l \in links : \A m \in links' :
       m.id = l.id =>
         \/ m.clickCount = l.clickCount
         \/ /\ m.clickCount = l.clickCount + 1
            /\ \E r \in Reqs :
                 /\ CommitsNow(r)
                 /\ req[r].code = l.code
                 /\ req[r].linkId = l.id]_vars

\* a click was committed, and a later GET /api/links/:code shows the count
C8_Witness ==
  \E r \in Redirects : \E g \in RequestsFor("get", req[r].code) :
    /\ Done(r) /\ req[r].committed
    /\ Done(g) /\ req[g].status = 200
    /\ req[g].rows[1].clickCount = CountBefore(req[g].rows[1]) + 1

\* C9: no two live links have the same code.
C9_CodeUnique ==
  \A l, m \in links : l.code = m.code => l = m

\* the link of a code was deleted and the code was created again: the live
\* link of that code is a new record
C9_Witness ==
  \E l0 \in links0 : \E l \in links :
    /\ l.code = l0.code
    /\ l.id # l0.id
    /\ WasDeleted(l.code)

\* the insert of request r resolves in this step
InsertsNow(r) ==
  /\ req[r].kind = "create"
  /\ req[r].pc = "insert"
  /\ req'[r].pc = "done"

\* C10: a create with an explicit code that belongs to a live link leaves
\* every row as it was and answers 409 (500 when the store call itself fails).
C10_DuplicateLeavesRecord ==
  [][\A r \in Reqs :
       (InsertsNow(r) /\ req[r].custom /\ RowsOf(req[r].code) # {})
         => /\ links' = links
            /\ req'[r].status \in {409, 500}
            /\ req'[r].status = 500 => req'[r].faulted]_vars

\* a create with an explicit code and another URL than the stored one
\* answered 409, and the stored row is the one of start-up
C10_Witness ==
  \E r \in Reqs : \E l \in links :
    /\ req[r].kind = "create" /\ req[r].custom
    /\ Done(r) /\ req[r].status = 409
    /\ l.code = req[r].code
    /\ l.originalUrl # req[r].url
    /\ l \in links0

\* ---------------------------------------------------------------------------
\* Validation of create requests

\* the URL of a body is missing, empty, not a string or does not parse
BadUrl(body) ==
  LET v == LongUrl(body)
  IN  \/ Falsy(v)
      \/ ~IsString(v)
      \/ ~UrlParses(IF HasScheme(Trim(v)) THEN Trim(v) ELSE HttpsPrefix \o Trim(v))

\* the body supplies a code that is not a string of 6..8 letters and digits
\* (surrounding white space apart)
BadCode(body) ==
  /\ ~Falsy(body.code)
  /\ ~IsString(body.code) \/ ~isValidCode(Trim(body.code))

\* C11: every create request whose URL is missing, empty or unparsable, or
\* whose supplied code is not a valid code, whatever JSON value is supplied,
\* is answered 400 straight away, before any store access
C11_InvalidCreateIs400 ==
  \A r \in Reqs :
    (req[r].kind = "create" /\ (BadUrl(req[r].body) \/ BadCode(req[r].body)))
      => (Done(r) /\ req[r].status = 400 /\ links = links0)

\* ---------------------------------------------------------------------------
\* Redirect of a code without a link

\* request r takes a step
Steps(r) == req'[r] # req[r]

\* C12: a redirect request whose SELECT finds no link of its code goes to the
\* not-found path; that path changes no link record and, unless the store
\* fails, ends with the transaction rolled back, the client released and the
\* answer 404
C12_NotFoundRedirect ==
  [][\A r \in Reqs :
       (req[r].kind = "redirect" /\ ~IsReserved(req[r].code) /\ Steps(r)) =>
         /\ (req[r].pc = "select" /\ RowsOf(req[r].code) = {} /\ ~req'[r].faulted)
              => (req'[r].pc = "rollback404" /\ links' = links)
         /\ req[r].pc = "rollback404"
              => /\ links' = links
                 /\ ~req'[r].faulted
                      => /\ Done(r)' /\ req'[r].status = 404
                         /\ req'[r].tx = "rolledback" /\ ~req'[r].committed
                         /\ req'[r].client = "released"]_vars

\* a redirect of a code without a link was answered 404 while a link of
\* another code exists
C12_Witness ==
  \E r \in Reqs :
    /\ req[r].kind = "redirect" /\ ~IsReserved(req[r].code)
    /\ Done(r) /\ req[r].status = 404 /\ req[r].tx = "rolledback"
    /\ links # {} /\ links = links0

\* ---------------------------------------------------------------------------
\* Delete

\* C13: a delete request for a code without a link is answered 404 and leaves
\* every link record as it was; a delete request for the code of a link
\* removes exactly the link of that code (a failed store call removes nothing)
C13_DeleteExactlyThatLink ==
  [][\A r \in Reqs :
       (req[r].kind = "delete" /\ req[r].pc = "delete" /\ Steps(r)) =>
         LET code == req[r].code
         IN  /\ (RowsOf(code) = {} /\ ~req'[r].faulted)
                  => (req'[r].status = 404 /\ links' = links)
             /\ (RowsOf(code) # {} /\ ~req'[r].faulted)
                  => /\ req'[r].status = 200
                     /\ links' = {l \in links : l.code # code}
             /\ req'[r].faulted => links' = links]_vars

\* a delete removed the link of its code and another link is still there
C13_Witness ==
  \E r \in Reqs :
    /\ req[r].kind = "delete" /\ Done(r) /\ req[r].status = 200
    /\ RowsOf(req[r].code) = {}
    /\ links # {}

\* ---------------------------------------------------------------------------
\* List

\* string t occurs in string s
Contains(s, t) ==
  \E i \in 0..Len(s) : i + Len(t) <= Len(s) /\ SubSeq(s, i + 1, i + Len(t)) = t

\* the links whose code or URL contains the term, letter case apart
Containing(term) ==
  {l \in links : \/ Contains(LowerStr(l.code), LowerStr(term))
                 \/ Contains(LowerStr(l.originalUrl), LowerStr(term))}

\* C14: a list request answers exactly the links whose code or originalUrl
\* contains the search term as a case-insensitive substring (all links when
\* the term is empty or absent), each once, newest first
C14_ListIsSubstringSearch ==
  \A r \in Reqs :
    (req[r].kind = "list" /\ Done(r) /\ req[r].status = 200) =>
      LET rows == req[r].rows
      IN  /\ Range(rows) = Containing(req[r].code)
          /\ Len(rows) = Cardinality(Range(rows))
          /\ \A i, j \in DOMAIN rows :
               i < j => rows[i].createdAt >= rows[j].createdAt

\* ---------------------------------------------------------------------------
\* isValidCode

\* c is an ASCII letter or digit
LetterOrDigit(c) == \E i \in 1..26 : c = LowerChars[i] \/ c = UpperChars[i] \/ c \in Digits

\* C15: isValidCode returns true for every string of 6, 7 or 8 ASCII letters
\* and digits and false for every other string, a string with white space or
\* with a line break at its end included, and changes nothing
C15_IsValidCode ==
  [][(call.fn = "isValidCode" /\ call' # call) =>
       /\ call'.result = IF /\ Len(call.arg) >= 6 /\ Len(call.arg) <= 8
                            /\ \A i \in DOMAIN call.arg : LetterOrDigit(call.arg[i])
                          THEN JsTrue ELSE JsFalse
       /\ call'.fn = call.fn /\ call'.arg = call.arg
       /\ UNCHANGED <<links, nextId, now, req, nreq, faults, links0, poolMax>>]_vars

\* isValidCode returned false for seven letters followed by a line break
C15_Witness ==
  /\ call.fn = "isValidCode" /\ call.result = JsFalse
  /\ Len(call.arg) = 8 /\ call.arg[8] = "\n"
  /\ \A i \in 1..7 : LetterOrDigit(call.arg[i])

\* ---------------------------------------------------------------------------
\* normalizeUrl

Http == <<"h","t","t","p",":","/","/">>
Https == <<"h","t","t","p","s",":","/","/">>

\* what normalizeUrl is to return for raw: null (Undef) for a missing, empty,
\* white-space-only or unparsable input, else the trimmed input, with https://
\* in front of it iff it starts with neither http:// nor https:// in any
\* letter case
Normalized(raw) ==
  IF raw = Undef \/ Trim(raw) = <<>> THEN Undef
  ELSE LET t == Trim(raw)
           full == IF \/ StartsWith(LowerStr(t), Http)
                      \/ StartsWith(LowerStr(t), Https)
                     THEN t ELSE Https \o t
       IN  IF UrlParses(full) THEN full ELSE Undef

\* normalizeUrl returns what it is to return
NormalizeUrlReturns ==
  (call.fn = "normalizeUrl" /\ call' # call) =>
    /\ call'.result = Normalized(call.arg)
    /\ call'.fn = call.fn /\ call'.arg = call.arg

\* C16 as stated: normalizeUrl returns the trimmed input, with https:// in
\* front of it iff it does not start with http:// or https:// (letter case
\* apart), and null for empty, white-space-only and unparsable input; every
\* stored originalUrl starts with the characters http:// or https://
C16_StoredUrlStartsWithHttp ==
  /\ [][NormalizeUrlReturns]_vars
  /\ [](\A l \in links : \/ StartsWith(l.originalUrl, Http)
                         \/ StartsWith(l.originalUrl, Https))

\* C16 amended: as above, but every stored originalUrl starts with http://
\* or https:// in some letter case (a scheme typed in capitals is stored as
\* it was typed)
C16_StoredUrlHasScheme ==
  /\ [][NormalizeUrlReturns]_vars
  /\ [](\A l \in links : \/ StartsWith(LowerStr(l.originalUrl), Http)
                         \/ StartsWith(LowerStr(l.originalUrl), Https))

\* a create request stored the URL HTTP://a.com as it was typed
C16_Witness ==
  \E r \in Reqs : \E l \in links :
    /\ req[r].kind = "create" /\ Done(r) /\ req[r].status = 201
    /\ l.code = req[r].code
    /\ l.originalUrl = req[r].body.url
    /\ StartsWith(l.originalUrl, <<"H","T","T","P",":","/","/">>)

\* ---------------------------------------------------------------------------
\* The reserved path

\* C17: a redirect request for favicon.ico is answered 404 at once: it takes
\* no connection, starts no transaction, reads and changes no link record
C17_FaviconNeverTouchesStore ==
  [][\A r \in Reqs :
       (req'[r].kind = "redirect" /\ req'[r].code = Favicon /\ Steps(r)) =>
         /\ req[r].pc = "idle"
         /\ Done(r)' /\ req'[r].status = 404 /\ req'[r].responses = 1
         /\ req'[r].client = "none" /\ req'[r].tx = "none"
         /\ req'[r].linkId = 0 /\ ~req'[r].faulted
         /\ UNCHANGED <<links, nextId, faults>>]_vars

\* favicon.ico was answered 404 while the table holds a link
C17_Witness ==
  \E r \in Reqs :
    /\ req[r].kind = "redirect" /\ req[r].code = Favicon
    /\ Done(r) /\ req[r].status = 404
    /\ links # {}

\* ---------------------------------------------------------------------------
\* clickCount and lastClickedAt

\* C20: in every state, for every link, lastClickedAt is null exactly when
\* clickCount is 0
C20_NullIffNeverClicked ==
  \A l \in links : (l.lastClickedAt = NULL) <=> (l.clickCount = 0)

\* a link created by a request was clicked once, another link never
C20_Witness ==
  \E l, m \in links :
    /\ l \notin links0
    /\ l.clickCount = 1 /\ l.lastClickedAt # NULL
    /\ m.clickCount = 0 /\ m.lastClickedAt = NULL

\* ---------------------------------------------------------------------------
\* The pooled connection of a redirect

\* C19: a redirect request that acquired a client has released it exactly
\* once when it has answered, whatever the answer, and not before; a client
\* that went back to the pool has its transaction committed or rolled back and
\* holds no row lock; a client whose connection failed, also in COMMIT or in
\* ROLLBACK, is dropped at its release, and the server has ended its
\* transaction
C19_ReleasedOnceAndClean ==
  \A r \in Reqs :
    req[r].kind = "redirect" =>
      /\ req[r].releases <= 1
      /\ (req[r].releases = 1) <=> (req[r].client \in {"released", "destroyed"})
      /\ Done(r) => (req[r].releases = IF req[r].client = "none" THEN 0 ELSE 1)
      /\ ~Done(r) => req[r].releases = 0
      /\ req[r].client = "released" => req[r].tx \in {"committed", "rolledback"}
      /\ req[r].client = "destroyed" => req[r].tx \in {"committed", "rolledback", "lost"}
      /\ req[r].releases = 1 => \A l \in links : ~HoldsLock(r, l.id)

\* a ROLLBACK failed on a connection that was lost, or a COMMIT failed, and
\* the client was released once and dropped
C19_Witness ==
  \E r \in Reqs :
    /\ req[r].kind = "redirect" /\ Done(r) /\ req[r].status = 500
    /\ req[r].linkId # 0
    /\ req[r].client = "destroyed" /\ req[r].releases = 1
    /\ req[r].tx = "lost"

\* ---------------------------------------------------------------------------
\* Every redirect ends

\* C18: every redirect request that was received ends with exactly one
\* response, 302, 404 or 500, also when it waits for a row lock or for a
\* client of the pool; no request has two responses
C18_RedirectEnds ==
  \A r \in Reqs :
    /\ [](req[r].kind = "redirect" =>
            <>(Done(r) /\ req[r].status \in {302, 404, 500}
                       /\ req[r].responses = 1))
    /\ [](req[r].responses = IF Done(r) THEN 1 ELSE 0)

\* a redirect waits for the only client of the pool while a redirect of the
\* same code holds it, with the row locked and its update not yet committed
C18_Witness ==
  \E r, o \in Reqs :
    /\ r # o
    /\ req[r].kind = "redirect" /\ req[o].kind = "redirect"
    /\ req[r].code = req[o].code
    /\ req[r].pc = "connect" /\ PoolFree = 0
    /\ req[o].pc = "commit" /\ HoldsLock(o, req[o].linkId)

\* ---------------------------------------------------------------------------
\* The code a create request stores

\* the links stored since start-up
Stored == links \ links0

\* s has lo to hi characters, all ASCII letters or digits
Alphanumeric(s, lo, hi) ==
  /\ Len(s) >= lo /\ Len(s) <= hi
  /\ \A i \in DOMAIN s : LetterOrDigit(s[i])

\* C21: a create request whose code field is a string, the empty string and
\* strings with surrounding white space included, stores a link under exactly
\* that string or stores nothing; a create request without a code field
\* stores a link under a code of exactly 7 letters and digits; every stored
\* code has 6 to 8 letters and digits
C21_StoredUnderSuppliedCode ==
  /\ \A r \in Reqs :
       req[r].kind = "create" =>
         /\ IsString(req[r].body.code) =>
              \A l \in Stored : l.code = req[r].code => l.code = req[r].body.code
         /\ (IsString(req[r].body.code) /\ req[r].status = 201) =>
              req[r].code = req[r].body.code
         /\ (req[r].body.code = Undef /\ req[r].status = 201) =>
              Alphanumeric(req[r].code, 7, 7)
  /\ \A l \in links : Alphanumeric(l.code, 6, 8)

====
